---- MODULE Spec2Model ----
(***************************************************************************)
(* Token-brokering protocol of the Power BI embedding glue layer.          *)
(*                                                                         *)
(* Three broker deployments are modelled, one request record per inbound   *)
(* HTTP request:                                                           *)
(*   fn_jwt        supabase/functions/get-powerbi-embed-config/index.ts    *)
(*                 (local verification of the session JWT)                 *)
(*   fn_introspect unnamed/part_000 (session checked by the identity       *)
(*                 provider, embed-token response validated)               *)
(*   get_config, post_config, get_token                                    *)
(*                 the express routes of unnamed/part_004 on top of        *)
(*                 PowerBIService / AuthService                            *)
(*                                                                         *)
(* Strings that the code inspects with String.includes are sequences of    *)
(* fragments; the two needles of the status mapping are fragments of their *)
(* own.  A JavaScript undefined is the value Undef.                        *)
(***************************************************************************)
EXTENDS Integers, Sequences, FiniteSets, TLC

VARIABLES env, msalCache, reqs, app, server

vars == <<env, msalCache, reqs, app, server>>

\* Request slots. A slot is reused once its response has been sent, so one
\* slot carries any sequence of requests. Spec runs the requests of slot
\* "req" one after the other; SpecPair runs the two slots concurrently.
Reqs == {"req"}

Slots == {"req", "req2"}

\* ------------------------------------------------------------ JS values

Undef == "<undefined>"

Truthy(v) == v # Undef /\ v # ""

JsOr(a, b) == IF Truthy(a) THEN a ELSE b

TypeOf(v) == IF v = Undef THEN "undefined" ELSE IF v = "<number>" THEN "number" ELSE "string"

Includes(msg, needle) == \E i \in 1..Len(msg) : msg[i] = needle

\* ------------------------------------------------------- error messages

MsgAuthHeader == <<"Missing", " or invalid Authorization header">>

MsgJwtSecret == <<"Missing", " _SUPABASE_JWT_SECRET environment variable">>

MsgInvalidToken == <<"Invalid or expired token">>

MsgPbiConfig == <<"Missing", " Power BI workspace or report configuration">>

MsgAzureConfig == <<"Missing", " Azure Service Principal configuration">>

MsgAzureGrant(text) == <<"Failed to acquire Azure AD token: ">> \o text

MsgReportApi(text) == <<"Power BI API error: ">> \o text

MsgMintApi(text) == <<"Failed to generate embed token: ">> \o text

MsgJsonSyntax == <<"Unexpected token < in JSON at position 0">>

MsgMintParse == <<"Failed to parse embed token response: ">> \o MsgJsonSyntax

MsgMintShape == <<"Power BI embed token response is missing expected \"token\", \"tokenId\", or \"expiration\" properties">>

MsgIdsRequired == <<"Report ID and Workspace ID are required">>

MsgPostRequired == <<"reportId and workspaceId are required">>

MsgAuthFailed(m) == <<"Authentication failed: ">> \o m

MsgNoAccessToken == <<"Failed to acquire access token">>

MsgAuthServiceRef == <<"authService is not defined">>

MsgBodySyntax == <<"Unexpected token } in JSON at position 1">>

NoMsg == <<>>

\* --------------------------------------------------------------- inputs

\* Process environment: the configuration values the brokers read. The full
\* configuration, and each way of leaving one value out or mis-encoding it.
FullEnv ==
    [ ws |-> "wsDefault", rep |-> "repDefault", clientId |-> "cid",
      clientSecret |-> "csecret", tenantId |-> "tid", jwtSecret |-> "b64secret",
      apiUrl |-> "https://api.powerbi.com",
      authority |-> "https://login.microsoftonline.com/" ]

Envs ==
    { FullEnv,
      [FullEnv EXCEPT !.ws = Undef],
      [FullEnv EXCEPT !.rep = Undef],
      [FullEnv EXCEPT !.clientId = Undef],
      [FullEnv EXCEPT !.clientSecret = Undef],
      [FullEnv EXCEPT !.tenantId = Undef],
      [FullEnv EXCEPT !.jwtSecret = Undef],
      [FullEnv EXCEPT !.jwtSecret = "not-base64!"] }

\* Session tokens: the subject they carry and the key encodings (1 string,
\* 2 decoded bytes, 3 imported key) under which their signature verifies. The
\* third is a correctly signed token without a sub claim.
SessionTokens ==
    { [sub |-> Undef, accepts |-> {}],
      [sub |-> "alice", accepts |-> {3}],
      [sub |-> "bob", accepts |-> {2, 3}],
      [sub |-> Undef, accepts |-> {1}] }

NoToken == [sub |-> Undef, accepts |-> {}]

AuthHeaders ==
    { [scheme |-> "none", token |-> NoToken], [scheme |-> "Basic", token |-> NoToken] }
    \cup { [scheme |-> "Bearer", token |-> t] : t \in SessionTokens }

Endpoints == {"fn_jwt", "fn_introspect", "get_config", "post_config", "get_token"}

FnEndpoints == {"fn_jwt", "fn_introspect"}

Methods(e) ==
    IF e \in FnEndpoints THEN {"OPTIONS", "POST"}
    ELSE IF e = "post_config" THEN {"POST"} ELSE {"GET"}

\* Non-2xx bodies of Azure AD and Power BI.
PlainText == <<"400 invalid_client">>

MissingText == <<"400 AADSTS90014: ", "Missing", "RequiredField">>

ExpiredText == <<"401 ", "Invalid or expired token", " (InvalidAuthenticationToken)">>

AzureErrorTexts == {PlainText, MissingText, ExpiredText}

PbiErrorTexts == {PlainText, MissingText}

AzureOkTokens == {"az1"}

ReportBodies == { [id |-> "r1", embedUrl |-> "https://x", datasetId |-> "d1"] }

NoReportBody == [id |-> Undef, embedUrl |-> Undef, datasetId |-> Undef]

\* 2xx bodies of GenerateToken; json = FALSE is a body that is not JSON.
TokenBodies ==
    { [json |-> TRUE, token |-> "t1", tokenId |-> "k1", expiration |-> "2099-01-01T00:00:00Z"],
      [json |-> TRUE, token |-> "t1", tokenId |-> Undef, expiration |-> "2099-01-01T00:00:00Z"],
      [json |-> TRUE, token |-> "", tokenId |-> "k1", expiration |-> "2099-01-01T00:00:00Z"],
      [json |-> FALSE, token |-> Undef, tokenId |-> Undef, expiration |-> Undef] }

NoTokenBody == [json |-> FALSE, token |-> Undef, tokenId |-> Undef, expiration |-> Undef]

\* ------------------------------------------------------------- settings

DefaultSettings ==
    [ panes |-> [ filters |-> [expanded |-> FALSE, visible |-> TRUE],
                  pageNavigation |-> [visible |-> TRUE] ],
      bars |-> [ statusBar |-> [visible |-> TRUE] ] ]

CustomPanes == [ filters |-> [visible |-> FALSE] ]

\* The settings object a POST /config body may carry.
SettingsChoices ==
    { [panes |-> CustomPanes],
      [panes |-> CustomPanes, localeSettings |-> [language |-> "de"]] }

\* { ...a, ...b }: every top-level key of b replaces a's.
Spread(a, b) == [k \in DOMAIN a \cup DOMAIN b |-> IF k \in DOMAIN b THEN b[k] ELSE a[k]]

\* ---------------------------------------------------------- request state

NoData ==
    [ type |-> Undef, id |-> Undef, embedUrl |-> Undef, accessToken |-> Undef,
      tokenId |-> Undef, expiration |-> Undef, settings |-> DefaultSettings ]

\* Response headers and the top-level keys of the JSON bodies.
CorsHeaders ==
    {"Access-Control-Allow-Origin", "Access-Control-Allow-Headers", "Access-Control-Allow-Methods"}

JsonHeaders == CorsHeaders \cup {"Content-Type"}

ExpressHeaders == {"Content-Type"}

ErrorKeys == {"success", "error", "timestamp"}

SuccessKeys == {"success", "data", "timestamp"}

NoResp ==
    [ status |-> 0, success |-> FALSE, error |-> NoMsg, data |-> NoData, body |-> "none",
      headers |-> {}, keys |-> {} ]

NoCalls == [idp |-> 0, azure |-> 0, report |-> 0, mint |-> 0]

IdleSub == [st |-> "idle", err |-> NoMsg]

\* Form body of the client-credentials request.
NoGrantReq == [client_id |-> Undef, client_secret |-> Undef, grant_type |-> Undef]

NoReportReq == [ws |-> Undef, rep |-> Undef, bearer |-> Undef]

NoMintReq ==
    [ ws |-> Undef, rep |-> Undef, bearer |-> Undef, accessLevel |-> Undef,
      allowSaveAs |-> Undef, hasIdentities |-> FALSE, identities |-> <<>> ]

IdleReq ==
    [ pc |-> "idle", endpoint |-> "fn_jwt", method |-> "POST",
      auth |-> [scheme |-> "none", token |-> NoToken],
      parses |-> TRUE, qRep |-> Undef, qWs |-> Undef, hasSettings |-> FALSE, settings |-> [panes |-> CustomPanes],
      grant |-> "none", grantReq |-> NoGrantReq, assembled |-> NoData,
      authed |-> FALSE, tried |-> <<>>, userId |-> Undef, azureToken |-> Undef,
      rep |-> IdleSub, repReq |-> NoReportReq, repBody |-> NoReportBody,
      mint |-> IdleSub, mintReq |-> NoMintReq, mintBody |-> NoTokenBody,
      firstFail |-> "none",
      resp |-> NoResp, sent |-> 0, calls |-> NoCalls, steps |-> <<>> ]

\* ------------------------------------------------------------ responses

Respond(q, status, success, error, data, body, headers, keys) ==
    [ q EXCEPT !.pc = "done", !.sent = @ + 1,
               !.resp = [ status |-> status, success |-> success, error |-> error,
                          data |-> data, body |-> body, headers |-> headers, keys |-> keys ] ]

\* Status mapping of the function-style catch block.
StatusFor(msg) ==
    IF Includes(msg, "Invalid or expired token") THEN 401
    ELSE IF Includes(msg, "Missing") THEN 400 ELSE 500

FnError(q, msg) == Respond(q, StatusFor(msg), FALSE, msg, NoData, "json", JsonHeaders, ErrorKeys)

FnSuccess(q, cfg) == Respond(q, 200, TRUE, NoMsg, cfg, "json", JsonHeaders, SuccessKeys)

\* Every catch block of the express routes answers 500.
RouteError(q, msg) == Respond(q, 500, FALSE, msg, NoData, "json", ExpressHeaders, ErrorKeys)

RouteBadRequest(q, msg) == Respond(q, 400, FALSE, msg, NoData, "json", ExpressHeaders, ErrorKeys)

RouteSuccess(q, cfg) == Respond(q, 200, TRUE, NoMsg, cfg, "json", ExpressHeaders, SuccessKeys)

\* errorHandler middleware: the status follows err.name, the stack is added
\* when NODE_ENV is 'development'.
errorHandler(q, name, msg, development) ==
    LET statusCode == IF name = "ValidationError" THEN 400
                      ELSE IF name = "UnauthorizedError" THEN 401 ELSE 500
        message == IF name = "ValidationError" THEN msg
                   ELSE IF name = "UnauthorizedError" THEN <<"Unauthorized">>
                   ELSE IF msg # NoMsg THEN msg ELSE <<"Internal server error">>
    IN  Respond(q, statusCode, FALSE, message, NoData, "json", ExpressHeaders,
                IF development THEN ErrorKeys \cup {"stack"} ELSE ErrorKeys)

\* Variant: the preflight answer is built without the CORS headers.
Preflight_NoCors(q) == Respond(q, 200, TRUE, NoMsg, NoData, "empty", {}, {})

Preflight(q) == Respond(q, 200, TRUE, NoMsg, NoData, "empty", CorsHeaders, {})

HandlerError(q, msg) == IF q.endpoint \in FnEndpoints THEN FnError(q, msg) ELSE RouteError(q, msg)

\* Variant: the request's settings replace the configuration's settings whole.
ApplySettings_Replace(q, cfg) ==
    IF q.endpoint = "post_config" /\ q.hasSettings
    THEN [cfg EXCEPT !.settings = q.settings]
    ELSE cfg

\* router.post('/config') overlays the request's settings on the configuration.
ApplySettings(q, cfg) ==
    IF q.endpoint = "post_config" /\ q.hasSettings
    THEN [cfg EXCEPT !.settings = Spread(@, q.settings)]
    ELSE cfg

HandlerSuccess(q, cfg) ==
    LET q1 == [q EXCEPT !.assembled = cfg]
    IN  IF q.endpoint \in FnEndpoints THEN FnSuccess(q1, cfg)
        ELSE RouteSuccess(q1, ApplySettings(q, cfg))

\* ------------------------------------------------------- authentication

Base64Decodes(secret) == secret = "b64secret"

AuthFail(msg, tried) == [ok |-> FALSE, sub |-> Undef, err |-> msg, tried |-> tried]

AuthOk(sub, tried) == [ok |-> TRUE, sub |-> sub, err |-> NoMsg, tried |-> tried]

\* Variant: the secret written to the debug log is put in the error as well.
verifySupabaseJWT_EchoSecret(authHeader, jwtSecret) ==
    IF authHeader.scheme # "Bearer" THEN AuthFail(MsgAuthHeader, <<>>)
    ELSE IF ~Truthy(jwtSecret) THEN AuthFail(MsgJwtSecret, <<>>)
    ELSE IF ~Base64Decodes(jwtSecret) THEN AuthFail(MsgInvalidToken \o <<jwtSecret>>, <<>>)
    ELSE IF 1 \in authHeader.token.accepts THEN AuthOk(authHeader.token.sub, <<1>>)
    ELSE IF 2 \in authHeader.token.accepts THEN AuthOk(authHeader.token.sub, <<1, 2>>)
    ELSE IF 3 \in authHeader.token.accepts THEN AuthOk(authHeader.token.sub, <<1, 2, 3>>)
    ELSE AuthFail(MsgInvalidToken \o <<jwtSecret>>, <<1, 2, 3>>)

\* Variant: the error of the last verification attempt escapes to the caller.
verifySupabaseJWT_LeakDetail(authHeader, jwtSecret) ==
    IF authHeader.scheme # "Bearer" THEN AuthFail(MsgAuthHeader, <<>>)
    ELSE IF ~Truthy(jwtSecret) THEN AuthFail(MsgJwtSecret, <<>>)
    ELSE IF ~Base64Decodes(jwtSecret) THEN AuthFail(MsgInvalidToken, <<>>)
    ELSE IF 1 \in authHeader.token.accepts THEN AuthOk(authHeader.token.sub, <<1>>)
    ELSE IF 2 \in authHeader.token.accepts THEN AuthOk(authHeader.token.sub, <<1, 2>>)
    ELSE IF 3 \in authHeader.token.accepts THEN AuthOk(authHeader.token.sub, <<1, 2, 3>>)
    ELSE AuthFail(<<"All JWT verification methods failed">>, <<1, 2, 3>>)

\* verifySupabaseJWT: header check, secret lookup, then the three key encodings.
verifySupabaseJWT(authHeader, jwtSecret) ==
    IF authHeader.scheme # "Bearer" THEN AuthFail(MsgAuthHeader, <<>>)
    ELSE IF ~Truthy(jwtSecret) THEN AuthFail(MsgJwtSecret, <<>>)
    ELSE IF ~Base64Decodes(jwtSecret) THEN AuthFail(MsgInvalidToken, <<>>)
    ELSE IF 1 \in authHeader.token.accepts THEN AuthOk(authHeader.token.sub, <<1>>)
    ELSE IF 2 \in authHeader.token.accepts THEN AuthOk(authHeader.token.sub, <<1, 2>>)
    ELSE IF 3 \in authHeader.token.accepts THEN AuthOk(authHeader.token.sub, <<1, 2, 3>>)
    ELSE AuthFail(MsgInvalidToken, <<1, 2, 3>>)

\* What the identity provider answers to auth.getUser() for a header: a user
\* for a valid token that names one.
IdpAccepts(authHeader) ==
    authHeader.scheme = "Bearer" /\ authHeader.token.accepts # {} /\ Truthy(authHeader.token.sub)

\* The check of getUser()'s result: an error or no user is the generic failure.
UserOrThrow(accepted, sub) ==
    IF accepted THEN AuthOk(sub, <<>>) ELSE AuthFail(MsgInvalidToken, <<>>)

\* getAuthenticatedUser once the identity provider has answered.
getAuthenticatedUser(authHeader, reachable) ==
    UserOrThrow(reachable /\ IdpAccepts(authHeader), authHeader.token.sub)

\* ------------------------------------------------- service-principal token

ConfigMissing(e) == ~Truthy(e.clientId) \/ ~Truthy(e.clientSecret) \/ ~Truthy(e.tenantId)

\* The client-credentials request: the service principal's id and secret.
GrantRequest(e) ==
    [client_id |-> e.clientId, client_secret |-> e.clientSecret, grant_type |-> "client_credentials"]

SendGrant(q, e) ==
    [ q EXCEPT !.pc = "await_azure", !.calls.azure = @ + 1, !.grant = "sent",
               !.grantReq = GrantRequest(e) ]

\* Variant: the client-credentials request is sent whatever the configuration.
getAzureAccessToken_NoConfigCheck(q, e) ==
    SendGrant([q EXCEPT !.steps = Append(@, "token")], e)

\* getAzureAccessToken up to its fetch: the configuration check, then the
\* client-credentials request is sent.
getAzureAccessToken(q, e) ==
    LET q1 == [q EXCEPT !.steps = Append(@, "token")]
    IN  IF ConfigMissing(e) THEN FnError(q1, MsgAzureConfig)
        ELSE SendGrant(q1, e)

\* Variant: the handler goes on to the grant without the presence check.
FnAuthDone_NoPresenceCheck(q, a, e) ==
    LET q1 == [q EXCEPT !.tried = a.tried]
    IN  IF ~a.ok THEN FnError(q1, a.err)
        ELSE getAzureAccessToken([q1 EXCEPT !.authed = TRUE, !.userId = a.sub], e)

\* The handler between authentication and the grant: user extraction and the
\* presence check of POWERBI_WORKSPACE_ID / POWERBI_REPORT_ID.
FnAuthDone(q, a, e) ==
    LET q1 == [q EXCEPT !.tried = a.tried]
    IN  IF ~a.ok THEN FnError(q1, a.err)
        ELSE LET q2 == [q1 EXCEPT !.authed = TRUE, !.userId = a.sub,
                                  !.steps = Append(@, "validate")]
             IN  IF ~Truthy(e.ws) \/ ~Truthy(e.rep) THEN FnError(q2, MsgPbiConfig)
                 ELSE getAzureAccessToken(q2, e)

\* Whether new URL(v) parses.
IsUrl(v) == v \in {"https://api.powerbi.com", "https://login.microsoftonline.com/"}

Opt(cond, msg) == IF cond THEN <<msg>> ELSE <<>>

\* validateConfig().errors and .warnings of config.js.
ConfigErrors(e) ==
    Opt(~Truthy(e.clientId), "AZURE_CLIENT_ID is required")
    \o Opt(~Truthy(e.clientSecret), "AZURE_CLIENT_SECRET is required")
    \o Opt(~Truthy(e.tenantId), "AZURE_TENANT_ID is required")
    \o Opt(~Truthy(e.ws), "POWERBI_WORKSPACE_ID is required")
    \o Opt(~IsUrl(e.authority), "AZURE_AUTHORITY must be a valid URL")
    \o Opt(~IsUrl(e.apiUrl), "POWERBI_API_URL must be a valid URL")

ConfigWarnings(e) ==
    Opt(~Truthy(e.rep), "POWERBI_REPORT_ID not set - will need to be provided in API calls")

\* validateConfig().isValid, on which startServer listens or exits.
validateConfig(e) == ConfigErrors(e) = <<>>

\* ------------------------------------------------------------------ health

Trim(v) == IF v = " " THEN "" ELSE v

\* AuthService.validateConfig: each credential present and not blank.
AuthServiceValidateConfig(e) ==
    \A field \in {e.clientId, e.clientSecret, e.tenantId} :
        Truthy(field) /\ Trim(field) # ""

Readiness(ok) == IF ok THEN "ready" ELSE "misconfigured"

NoHealth ==
    [ statusCode |-> 0, status |-> Undef, environment |-> Undef, isValid |-> FALSE,
      errors |-> <<>>, warnings |-> <<>>, authentication |-> Undef, powerbi |-> Undef ]

\* Variant: the health route always answers 200.
HealthCheck_AlwaysOk(e, nodeEnv) ==
    [ statusCode |-> 200, status |-> "ok", environment |-> nodeEnv,
      isValid |-> validateConfig(e) /\ AuthServiceValidateConfig(e),
      errors |-> ConfigErrors(e), warnings |-> ConfigWarnings(e),
      authentication |-> Readiness(AuthServiceValidateConfig(e)),
      powerbi |-> Readiness(validateConfig(e)) ]

\* GET /api/health: the status code and the body it sends.
HealthCheck(e, nodeEnv) ==
    LET configValidation == validateConfig(e)
        authConfigValid == AuthServiceValidateConfig(e)
        isValid == configValidation /\ authConfigValid
    IN  [ statusCode |-> IF isValid THEN 200 ELSE 503,
          status |-> "ok", environment |-> nodeEnv, isValid |-> isValid,
          errors |-> ConfigErrors(e), warnings |-> ConfigWarnings(e),
          authentication |-> Readiness(authConfigValid),
          powerbi |-> Readiness(configValidation) ]

ServerInit == [state |-> "starting", health |-> NoHealth]

\* Configurations the express server may be started with.
HealthEnvs ==
    { [FullEnv EXCEPT !.clientId = c, !.clientSecret = s, !.tenantId = t,
                      !.ws = w, !.rep = p, !.apiUrl = u, !.authority = a] :
        c \in {Undef, " ", "cid"}, s \in {Undef, " ", "csecret"},
        t \in {Undef, " ", "tid"}, w \in {Undef, "wsDefault"},
        p \in {Undef, "repDefault"},
        u \in {"https://api.powerbi.com", "not a url"},
        a \in {"https://login.microsoftonline.com/", "login.microsoftonline.com"} }

\* ------------------------------------------------------------ sub-calls

\* Variant: the identity comes from a value shared by all requests, which
\* holds the first user's id.
MintRequestBody_SharedUser(userId) ==
    [ accessLevel |-> "View", allowSaveAs |-> "false",
      hasIdentities |-> TRUE,
      identities |-> << [username |-> "alice", roles |-> <<>>, datasets |-> <<>>] >> ]

\* Variant: the identities entry is written whether or not a user id is given.
MintRequestBody_AlwaysIdentities(userId) ==
    [ accessLevel |-> "View", allowSaveAs |-> "false",
      hasIdentities |-> TRUE,
      identities |-> << [username |-> userId, roles |-> <<>>, datasets |-> <<>>] >> ]

\* Body of the GenerateToken request of the function-style brokers.
MintRequestBody(userId) ==
    [ accessLevel |-> "View", allowSaveAs |-> "false",
      hasIdentities |-> Truthy(userId),
      identities |-> IF Truthy(userId)
                     THEN << [username |-> userId, roles |-> <<>>, datasets |-> <<>>] >>
                     ELSE <<>> ]

\* Body of the GenerateToken request of PowerBIService.generateEmbedToken.
RouteMintRequestBody ==
    [ accessLevel |-> "View", allowSaveAs |-> "false", hasIdentities |-> FALSE, identities |-> <<>> ]

MintReqOf(ws, rep, bearer, body) ==
    [ ws |-> ws, rep |-> rep, bearer |-> bearer, accessLevel |-> body.accessLevel,
      allowSaveAs |-> body.allowSaveAs, hasIdentities |-> body.hasIdentities,
      identities |-> body.identities ]

\* getPowerBIReportDetails / getReportDetails up to the fetch.
IssueReport(q, ws, rep, bearer) ==
    [ q EXCEPT !.rep = [st |-> "inflight", err |-> NoMsg],
               !.repReq = [ws |-> ws, rep |-> rep, bearer |-> bearer],
               !.calls.report = @ + 1 ]

\* generatePowerBIEmbedToken / generateEmbedToken from the request body to the fetch.
IssueMint(q, ws, rep, bearer, body) ==
    [ q EXCEPT !.mint = [st |-> "inflight", err |-> NoMsg],
               !.mintReq = MintReqOf(ws, rep, bearer, body),
               !.calls.mint = @ + 1 ]

\* Variant: a rejected call is issued a second time before it is given up.
Reject_Retry(q, sub, msg) ==
    IF sub = "rep" /\ q.calls.report = 1
    THEN [q EXCEPT !.rep = [st |-> "inflight", err |-> NoMsg], !.calls.report = @ + 1]
    ELSE IF sub = "mint" /\ q.calls.mint = 1
    THEN [q EXCEPT !.mint = [st |-> "inflight", err |-> NoMsg], !.calls.mint = @ + 1]
    ELSE [ q EXCEPT ![sub] = [st |-> "rejected", err |-> msg],
                    !.firstFail = IF @ = "none" THEN sub ELSE @ ]

Reject(q, sub, msg) ==
    [ q EXCEPT ![sub] = [st |-> "rejected", err |-> msg],
               !.firstFail = IF @ = "none" THEN sub ELSE @ ]

Resolve(q, sub) == [q EXCEPT ![sub] = [st |-> "resolved", err |-> NoMsg]]

\* Variant: the expiry is estimated locally instead of copied.
AssembleConfig_LocalExpiry(report, token) ==
    [ type |-> "report", id |-> report.id, embedUrl |-> report.embedUrl,
      accessToken |-> token.token, tokenId |-> token.tokenId,
      expiration |-> "now + 1h", settings |-> DefaultSettings ]

\* The embedConfig literal built from the two results.
AssembleConfig(report, token) ==
    [ type |-> "report", id |-> report.id, embedUrl |-> report.embedUrl,
      accessToken |-> token.token, tokenId |-> token.tokenId,
      expiration |-> token.expiration, settings |-> DefaultSettings ]

\* Variant: the two results are awaited one after the other.
PromiseAll_AwaitInOrder(q, settled) ==
    IF q.pc # "assembling" THEN q
    ELSE IF q.rep.st = "rejected" THEN HandlerError(q, q.rep.err)
    ELSE IF q.rep.st = "resolved" /\ q.mint.st = "rejected" THEN HandlerError(q, q.mint.err)
    ELSE IF q.rep.st = "resolved" /\ q.mint.st = "resolved"
         THEN HandlerSuccess(q, AssembleConfig(q.repBody, q.mintBody))
    ELSE q

\* Variant: the continuation runs on every settlement, answered or not.
PromiseAll_RespondEachSettle(q, settled) ==
    IF q[settled].st = "rejected" THEN HandlerError(q, q[settled].err)
    ELSE IF q.rep.st = "resolved" /\ q.mint.st = "resolved"
         THEN HandlerSuccess(q, AssembleConfig(q.repBody, q.mintBody))
    ELSE q

\* await Promise.all([report, mint]) and the handler's continuation, run when
\* sub-call `settled` has just settled: the first rejection rejects the join,
\* two fulfilments fulfil it.
PromiseAll(q, settled) ==
    IF q.pc # "assembling" THEN q
    ELSE IF q[settled].st = "rejected" THEN HandlerError(q, q[settled].err)
    ELSE IF q.rep.st = "resolved" /\ q.mint.st = "resolved"
         THEN HandlerSuccess(q, AssembleConfig(q.repBody, q.mintBody))
    ELSE q

\* Variant: only the report call is started; the mint would follow its result.
StartAssembly_Sequential(q, token, e) ==
    LET q1 == [q EXCEPT !.azureToken = token, !.pc = "assembling",
                        !.steps = Append(@, "assemble")]
    IN  IssueReport(q1, e.ws, e.rep, token)

\* Function-style: both calls are started in the argument list of Promise.all.
StartAssembly(q, token, e) ==
    LET q1 == [q EXCEPT !.azureToken = token, !.pc = "assembling",
                        !.steps = Append(@, "assemble")]
        q2 == IssueReport(q1, e.ws, e.rep, token)
    IN  IssueMint(q2, e.ws, e.rep, token, MintRequestBody(q.userId))

\* Variant: generateEmbedToken ignores the requested report and mints for the
\* configured default.
RouteStartAssembly_MintDefaultReport(q, token, e) ==
    LET targetRep == JsOr(q.qRep, e.rep)
        targetWs == JsOr(q.qWs, e.ws)
        q1 == [q EXCEPT !.azureToken = token, !.pc = "assembling",
                        !.steps = Append(@, "assemble")]
        q2 == IssueReport(q1, targetWs, targetRep, token)
        q3 == [q2 EXCEPT !.steps = Append(@, "validate")]
    IN  IF ~Truthy(e.rep) \/ ~Truthy(targetWs)
        THEN PromiseAll(Reject(q3, "mint", MsgIdsRequired), "mint")
        ELSE IssueMint(q3, targetWs, e.rep, token, RouteMintRequestBody)

\* Route-style getEmbedConfig after the access token: getReportDetails sends
\* its GET; generateEmbedToken checks the ids and then sends its POST.
RouteStartAssembly(q, token, e) ==
    LET targetRep == JsOr(q.qRep, e.rep)
        targetWs == JsOr(q.qWs, e.ws)
        q1 == [q EXCEPT !.azureToken = token, !.pc = "assembling",
                        !.steps = Append(@, "assemble")]
        q2 == IssueReport(q1, targetWs, targetRep, token)
        q3 == [q2 EXCEPT !.steps = Append(@, "validate")]
    IN  IF ~Truthy(targetRep) \/ ~Truthy(targetWs)
        THEN PromiseAll(Reject(q3, "mint", MsgIdsRequired), "mint")
        ELSE IssueMint(q3, targetWs, targetRep, token, RouteMintRequestBody)

\* Response validation of generatePowerBIEmbedToken (fn_introspect only).
ShapeOk(b) ==
    TypeOf(b.token) = "string" /\ TypeOf(b.tokenId) = "string" /\ TypeOf(b.expiration) = "string"

\* What a 2xx GenerateToken body makes of the mint call.
MintSettle(q, b) ==
    IF q.endpoint = "fn_introspect"
    THEN IF ~b.json THEN Reject(q, "mint", MsgMintParse)
         ELSE IF ~ShapeOk(b) THEN Reject(q, "mint", MsgMintShape)
         ELSE [Resolve(q, "mint") EXCEPT !.mintBody = b]
    ELSE IF ~b.json THEN Reject(q, "mint", MsgJsonSyntax)
         ELSE [Resolve(q, "mint") EXCEPT !.mintBody = b]

\* ------------------------------------------------------------ client state
\* The React application (App): its state hooks, the mounted report viewer and
\* the broker invocations it has in flight.

MaxMint == 3
MaxCalls == 2

Null == "<null>"
Sessions == {"sA", "sB"}

MsgLoadFailed == "Failed to load Power BI report"
MsgRefreshFailed == "Failed to refresh authentication token"
MsgSignOutFailed == "Failed to sign out"
MsgViewerError == "Power BI report error"

NoReport == -1
NoConfig == [accessToken |-> 0, session |-> Null]
NoViewer == [mounted |-> FALSE, inst |-> 0, token |-> 0]
Pending == [st |-> "pending", accessToken |-> 0]

AppInit ==
    [ session        |-> Null,
      loading        |-> TRUE,
      embedConfig    |-> NoConfig,
      report         |-> NoReport,
      error          |-> Null,
      isLoadingEmbed |-> FALSE,
      viewer         |-> NoViewer,
      calls          |-> {},
      minted         |-> 0,
      expiredUpTo    |-> 0,
      booted         |-> FALSE,
      signingOut     |-> FALSE ]

\* -------------------------------------------------------------- actions

Init ==
    /\ env \in Envs
    /\ msalCache = Undef
    /\ reqs = [r \in Slots |-> IdleReq]
    /\ app = AppInit
    /\ server = ServerInit

Set(r, q) == reqs' = [reqs EXCEPT ![r] = q] /\ UNCHANGED <<app, server>>

\* A request reaches a broker. The express server listens only with a valid
\* configuration; its routes read reportId / workspaceId (and, for POST,
\* settings) from the request and never read the Authorization header, of
\* which two values are kept for them. The body of a POST may fail to parse.
Arrive(r) ==
    /\ reqs[r].pc = "idle"
    /\ \E e \in Endpoints, h \in AuthHeaders, qr \in {Undef, "repReq"}, qw \in {Undef, "wsReq"} :
         \E m \in Methods(e), hs \in BOOLEAN, st \in SettingsChoices, ps \in BOOLEAN :
            /\ e \in FnEndpoints => qr = Undef /\ qw = Undef
            /\ ~ps => e = "post_config" /\ qr = Undef /\ qw = Undef /\ h.scheme = "none"
            /\ e \notin FnEndpoints => validateConfig(env) /\ h.scheme \in {"none", "Bearer"}
                                                          /\ h.token.accepts \in {{}, {3}}
            /\ IF e = "post_config" /\ Truthy(qr) /\ Truthy(qw)
               THEN hs \/ st = [panes |-> CustomPanes]
               ELSE ~hs /\ st = [panes |-> CustomPanes]
            /\ Set(r, [IdleReq EXCEPT !.pc = "received", !.endpoint = e, !.method = m,
                                      !.auth = h, !.parses = ps, !.qRep = qr, !.qWs = qw,
                                      !.hasSettings = hs, !.settings = st])
    /\ UNCHANGED <<env, msalCache>>

\* serve handler of index.ts up to its first network call.
FnJwtHandle(r) ==
    LET q == reqs[r]
    IN  /\ q.pc = "received" /\ q.endpoint = "fn_jwt"
        /\ IF q.method = "OPTIONS" THEN Set(r, Preflight(q))
           ELSE Set(r, FnAuthDone([q EXCEPT !.steps = Append(@, "auth")],
                                  verifySupabaseJWT(q.auth, env.jwtSecret), env))
        /\ UNCHANGED <<env, msalCache>>

\* Deno.serve handler of part_000 up to auth.getUser().
FnIntrospectSend(r) ==
    LET q == reqs[r]
    IN  /\ q.pc = "received" /\ q.endpoint = "fn_introspect"
        /\ IF q.method = "OPTIONS" THEN Set(r, Preflight(q))
           ELSE Set(r, [q EXCEPT !.pc = "await_idp", !.calls.idp = @ + 1,
                                 !.steps = Append(@, "auth")])
        /\ UNCHANGED <<env, msalCache>>

\* The identity provider answers (or cannot be reached).
IdpReply(r) ==
    LET q == reqs[r]
    IN  /\ q.pc = "await_idp"
        /\ \E reachable \in BOOLEAN :
              Set(r, FnAuthDone(q, getAuthenticatedUser(q.auth, reachable), env))
        /\ UNCHANGED <<env, msalCache>>

\* Variant: with a cached access token the configuration handed out before is
\* answered again, without a call to Power BI.
getAccessToken_ReuseConfig(q, cache, e) ==
    LET q1 == [q EXCEPT !.steps = Append(@, "token")]
    IN  IF Truthy(cache)
        THEN HandlerSuccess(q1, AssembleConfig(
                 [id |-> "r1", embedUrl |-> "https://x", datasetId |-> "d1"],
                 [json |-> TRUE, token |-> "t1", tokenId |-> "k1",
                  expiration |-> "2099-01-01T00:00:00Z"]))
        ELSE SendGrant(q1, e)

\* AuthService.getAccessToken: MSAL answers from its cache or asks Azure AD.
getAccessToken(q, cache, e) ==
    LET q1 == [q EXCEPT !.steps = Append(@, "token")]
    IN  IF Truthy(cache) THEN RouteStartAssembly(q1, cache, e)
        ELSE SendGrant(q1, e)

\* The express middleware and routes up to their first network call.
RouteHandle(r) ==
    LET q == reqs[r]
    IN  /\ q.pc = "received" /\ q.endpoint \notin FnEndpoints
        /\ IF ~q.parses
           THEN \E development \in BOOLEAN :
                    Set(r, errorHandler(q, "SyntaxError", MsgBodySyntax, development))
           ELSE IF q.endpoint = "get_token" THEN Set(r, RouteError(q, MsgAuthServiceRef))
           ELSE IF q.endpoint = "post_config" /\ (~Truthy(q.qRep) \/ ~Truthy(q.qWs))
                THEN Set(r, RouteBadRequest([q EXCEPT !.steps = Append(@, "validate")],
                                            MsgPostRequired))
           ELSE IF q.endpoint = "post_config"
                THEN Set(r, getAccessToken([q EXCEPT !.steps = Append(@, "validate")],
                                           msalCache, env))
           ELSE Set(r, getAccessToken(q, msalCache, env))
        /\ UNCHANGED <<env, msalCache>>

Granted(q) == [q EXCEPT !.grant = "ok"]

GrantFailed(q) == [q EXCEPT !.grant = "failed"]

\* Azure AD answers the client-credentials request.
AzureReply(r) ==
    LET q == reqs[r]
    IN  /\ q.pc = "await_azure"
        /\ \/ \E t \in AzureOkTokens :
                IF q.endpoint \in FnEndpoints
                THEN Set(r, StartAssembly(Granted(q), t, env)) /\ UNCHANGED msalCache
                ELSE Set(r, RouteStartAssembly(Granted(q), t, env)) /\ msalCache' = t
           \/ \E text \in AzureErrorTexts :
                /\ IF q.endpoint \in FnEndpoints
                   THEN Set(r, FnError(GrantFailed(q), MsgAzureGrant(text)))
                   ELSE Set(r, RouteError(GrantFailed(q), MsgAuthFailed(text)))
                /\ UNCHANGED msalCache
           \/ /\ q.endpoint \notin FnEndpoints
              /\ Set(r, RouteError(GrantFailed(q), MsgAuthFailed(MsgNoAccessToken)))
              /\ UNCHANGED msalCache
        /\ UNCHANGED env

\* The cached service-principal token expires.
CacheExpire ==
    /\ Truthy(msalCache)
    /\ msalCache' = Undef
    /\ UNCHANGED <<env, reqs, app, server>>

\* Status line of the report-metadata response.
ReportHeaders(r) ==
    LET q == reqs[r]
    IN  /\ q.rep.st = "inflight"
        /\ \E ok \in BOOLEAN :
              Set(r, [q EXCEPT !.rep.st = IF ok THEN "hdr_ok" ELSE "hdr_bad"])
        /\ UNCHANGED <<env, msalCache>>

\* response.json() / response.text() of the report-metadata call completes,
\* Power BI answering with one of `bodies` or of `texts`.
ReportBodyFrom(r, bodies, texts) ==
    LET q == reqs[r]
    IN  /\ \/ /\ q.rep.st = "hdr_ok"
              /\ \E b \in bodies :
                    Set(r, PromiseAll([Resolve(q, "rep") EXCEPT !.repBody = b], "rep"))
           \/ /\ q.rep.st = "hdr_bad"
              /\ \E text \in texts :
                    Set(r, PromiseAll(Reject(q, "rep", MsgReportApi(text)), "rep"))
        /\ UNCHANGED <<env, msalCache>>

ReportBody(r) == ReportBodyFrom(r, ReportBodies, PbiErrorTexts)

\* Status line of the GenerateToken response.
MintHeaders(r) ==
    LET q == reqs[r]
    IN  /\ q.mint.st = "inflight"
        /\ \E ok \in BOOLEAN :
              Set(r, [q EXCEPT !.mint.st = IF ok THEN "hdr_ok" ELSE "hdr_bad"])
        /\ UNCHANGED <<env, msalCache>>

\* response.json() / response.text() of the GenerateToken call completes,
\* Power BI answering with one of `bodies` or of `texts`.
MintBodyFrom(r, bodies, texts) ==
    LET q == reqs[r]
    IN  /\ \/ /\ q.mint.st = "hdr_ok"
              /\ \E b \in bodies : Set(r, PromiseAll(MintSettle(q, b), "mint"))
           \/ /\ q.mint.st = "hdr_bad"
              /\ \E text \in texts :
                    Set(r, PromiseAll(Reject(q, "mint",
                        IF q.endpoint \in FnEndpoints THEN MsgMintApi(text) ELSE MsgReportApi(text)),
                        "mint"))
        /\ UNCHANGED <<env, msalCache>>

MintBody(r) == MintBodyFrom(r, TokenBodies, PbiErrorTexts)

\* The response has been sent and no call is outstanding: nothing of the
\* request is kept.
Forget(r) ==
    LET q == reqs[r]
    IN  /\ q.pc = "done"
        /\ q.rep.st \notin {"inflight", "hdr_ok", "hdr_bad"}
        /\ q.mint.st \notin {"inflight", "hdr_ok", "hdr_bad"}
        /\ Set(r, IdleReq)
        /\ UNCHANGED <<env, msalCache>>

Next ==
    \/ \E r \in Reqs :
         \/ Arrive(r)
         \/ FnJwtHandle(r)
         \/ FnIntrospectSend(r)
         \/ IdpReply(r)
         \/ RouteHandle(r)
         \/ AzureReply(r)
         \/ ReportHeaders(r)
         \/ ReportBody(r)
         \/ MintHeaders(r)
         \/ MintBody(r)
         \/ Forget(r)
    \/ CacheExpire

Spec == Init /\ [][Next]_vars

\* The broker runs its own handler code to the next await; nothing obliges
\* the identity provider, Azure AD or Power BI to answer.
SpecLive ==
    Spec /\ WF_vars(\E r \in Reqs : FnJwtHandle(r) \/ FnIntrospectSend(r) \/ RouteHandle(r))

\* ------------------------------------------------- two concurrent requests

\* Slot "req" carries alice's requests and slot "req2" bob's, to index.ts or
\* to GET /api/embed/config, under the full configuration. Power BI answers
\* each call for what that call asked: the report that was requested and a
\* token bound to the identity and report of the GenerateToken request.
PairUser(r) == IF r = "req" THEN [sub |-> "alice", accepts |-> {3}] ELSE [sub |-> "bob", accepts |-> {2, 3}]

PairReport(r) == IF r = "req" THEN "repReq" ELSE Undef

PairTokenFor(mintReq) ==
    IF mintReq.hasIdentities
    THEN IF mintReq.identities[1].username = "alice" THEN "t-alice" ELSE "t-bob"
    ELSE IF mintReq.rep = "repReq" THEN "t-repReq" ELSE "t-repDefault"

PairTokenBody(mintReq) ==
    [ json |-> TRUE, token |-> PairTokenFor(mintReq), tokenId |-> "k1",
      expiration |-> "2099-01-01T00:00:00Z" ]

PairReportBody(repReq) == [id |-> repReq.rep, embedUrl |-> "https://x", datasetId |-> "d1"]

PairScope(q, r) ==
    \/ q.pc = "idle"
    \/ /\ q.endpoint \in {"fn_jwt", "get_config"}
       /\ q.method # "OPTIONS"
       /\ q.auth = IF q.endpoint = "fn_jwt" THEN [scheme |-> "Bearer", token |-> PairUser(r)]
                   ELSE [scheme |-> "none", token |-> NoToken]
       /\ q.qWs = Undef
       /\ q.qRep = IF q.endpoint = "fn_jwt" THEN Undef ELSE PairReport(r)
       /\ q.grant = "failed"
          => q.resp.error \in { MsgAzureGrant(PlainText), MsgAuthFailed(PlainText),
                                 MsgAuthFailed(MsgNoAccessToken) }

InitPair ==
    /\ env = FullEnv
    /\ msalCache = Undef
    /\ reqs = [r \in Slots |-> IdleReq]
    /\ app = AppInit
    /\ server = ServerInit

PairArrive(r) == Arrive(r) /\ PairScope(reqs'[r], r)

PairAzureReply(r) == AzureReply(r) /\ PairScope(reqs'[r], r)

PairReportReply(r) == ReportBodyFrom(r, {PairReportBody(reqs[r].repReq)}, {PlainText})

PairMintReply(r) == MintBodyFrom(r, {PairTokenBody(reqs[r].mintReq)}, {PlainText})

NextPair ==
    \/ \E r \in Slots :
         \/ PairArrive(r)
         \/ FnJwtHandle(r)
         \/ RouteHandle(r)
         \/ PairAzureReply(r)
         \/ ReportHeaders(r)
         \/ PairReportReply(r)
         \/ MintHeaders(r)
         \/ PairMintReply(r)
         \/ Forget(r)
    \/ CacheExpire

SpecPair == InitPair /\ [][NextPair]_vars

\* ----------------------------------------------------------- express server

SetServer(sv) == server' = sv /\ UNCHANGED <<env, msalCache, reqs, app>>

\* Variant: the server listens whatever validation reports.
startServer_NoValidation ==
    /\ server.state = "starting"
    /\ SetServer([server EXCEPT !.state = "listening"])

\* startServer: listens when the configuration validates, exits otherwise.
startServer ==
    /\ server.state = "starting"
    /\ SetServer([server EXCEPT !.state = IF validateConfig(env) THEN "listening"
                                                                  ELSE "exited"])

GetHealth ==
    /\ server.state = "listening"
    /\ \E nodeEnv \in {"development", "production"} :
           SetServer([server EXCEPT !.health = HealthCheck(env, nodeEnv)])

InitHealth ==
    /\ env \in HealthEnvs
    /\ msalCache = Undef
    /\ reqs = [r \in Slots |-> IdleReq]
    /\ app = AppInit
    /\ server = ServerInit

NextHealth == startServer \/ GetHealth

SpecHealth == InitHealth /\ [][NextHealth]_vars

\* ------------------------------------------------------------------ client
\* What the component renders after a state update: the viewer is shown while
\* a session and an embed configuration are held and no load is in progress;
\* mounting it hands the new report object to setReport, and a changed
\* configuration reaches a mounted viewer as a prop.
ShowsViewer(a) ==
    /\ a.session # Null
    /\ ~a.loading
    /\ a.embedConfig # NoConfig
    /\ ~a.isLoadingEmbed

Render(a) ==
    IF ShowsViewer(a)
    THEN IF a.viewer.mounted
         THEN [a EXCEPT !.viewer.token = a.embedConfig.accessToken]
         ELSE LET i == 1 - a.viewer.inst
              IN  [a EXCEPT !.viewer = [mounted |-> TRUE, inst |-> i,
                                        token |-> a.embedConfig.accessToken],
                            !.report = i]
    ELSE [a EXCEPT !.viewer = [mounted |-> FALSE, inst |-> a.viewer.inst,
                               token |-> 0]]

Invoke(a, kind) ==
    [a EXCEPT !.calls = @ \cup {[kind |-> kind, session |-> a.session,
                                 report |-> a.report, answer |-> Pending]}]

fetchEmbedConfig(a) ==
    IF a.session = Null
    THEN a
    ELSE Invoke([a EXCEPT !.isLoadingEmbed = TRUE, !.error = Null], "fetch")

\* refreshToken that sets the token on the report but never calls setEmbedConfig.
refreshTokenThen_KeepConfig(a, c) ==
    IF c.answer.st = "ok" /\ c.report # NoReport
    THEN IF a.viewer.mounted /\ a.viewer.inst = c.report
         THEN [a EXCEPT !.viewer.token = c.answer.accessToken]
         ELSE a
    ELSE IF c.answer.st = "error"
         THEN [a EXCEPT !.error = MsgRefreshFailed]
         ELSE a

refreshToken(a) ==
    IF a.session = Null THEN a ELSE Invoke(a, "refresh")

\* Variant: a failed load leaves no error behind.
fetchEmbedConfigThen_Silent(a, c) ==
    LET a1 == IF c.answer.st = "ok"
              THEN [a EXCEPT !.embedConfig = [accessToken |-> c.answer.accessToken,
                                              session |-> c.session]]
              ELSE a
    IN  [a1 EXCEPT !.isLoadingEmbed = FALSE]

\* The continuation of fetchEmbedConfig after the invocation settled.
fetchEmbedConfigThen(a, c) ==
    LET a1 == IF c.answer.st = "ok"
              THEN [a EXCEPT !.embedConfig = [accessToken |-> c.answer.accessToken,
                                              session |-> c.session]]
              ELSE [a EXCEPT !.error = MsgLoadFailed]
    IN  [a1 EXCEPT !.isLoadingEmbed = FALSE]

\* The continuation of refreshToken after the invocation settled.
refreshTokenThen(a, c) ==
    IF c.answer.st = "ok" /\ c.report # NoReport
    THEN LET a1 == IF a.viewer.mounted /\ a.viewer.inst = c.report
                   THEN [a EXCEPT !.viewer.token = c.answer.accessToken]
                   ELSE a
         IN  [a1 EXCEPT !.embedConfig = [accessToken |-> c.answer.accessToken,
                                         session |-> c.session]]
    ELSE IF c.answer.st = "error"
         THEN [a EXCEPT !.error = MsgRefreshFailed]
         ELSE a

CanInvoke(a) == Cardinality(a.calls) < MaxCalls

SetApp(a) == app' = a /\ UNCHANGED <<env, msalCache, reqs, server>>

\* setSession from either source, followed by the [session] effect.
SetSession(a, s) ==
    LET a1 == [a EXCEPT !.session = s, !.loading = FALSE]
    IN  Render(IF s # Null /\ a1.embedConfig = NoConfig
               THEN fetchEmbedConfig(a1)
               ELSE a1)

GetSessionThen ==
    /\ ~app.booted
    /\ CanInvoke(app)
    /\ \E s \in Sessions \cup {Null} :
           SetApp(SetSession([app EXCEPT !.booted = TRUE], s))

AuthStateChange ==
    /\ CanInvoke(app)
    /\ \E s \in Sessions \cup {Null} : SetApp(SetSession(app, s))

BrokerAnswers ==
    \E c \in app.calls :
        /\ c.answer = Pending
        /\ \/ /\ app.minted < MaxMint
              /\ SetApp([app EXCEPT
                     !.minted = @ + 1,
                     !.calls = (@ \ {c}) \cup
                         {[c EXCEPT !.answer = [st |-> "ok",
                                                accessToken |-> app.minted + 1]]}])
           \/ \E st \in {"error", "refused"} :
                  SetApp([app EXCEPT
                      !.calls = (@ \ {c}) \cup
                          {[c EXCEPT !.answer = [st |-> st, accessToken |-> 0]]}])

InvokeSettles ==
    \E c \in app.calls :
        /\ c.answer # Pending
        /\ LET a == [app EXCEPT !.calls = @ \ {c}]
           IN  SetApp(Render(IF c.kind = "fetch"
                             THEN fetchEmbedConfigThen(a, c)
                             ELSE refreshTokenThen(a, c)))

\* The embed token in use runs out; the viewer raises tokenExpired.
TokenExpired ==
    /\ app.viewer.mounted
    /\ app.viewer.token > app.expiredUpTo
    /\ CanInvoke(app)
    /\ SetApp(Render(refreshToken([app EXCEPT !.expiredUpTo = app.viewer.token])))

ViewerError ==
    /\ app.viewer.mounted
    /\ SetApp([app EXCEPT !.error = MsgViewerError])

SignOutClick ==
    /\ app.session # Null
    /\ ~app.loading
    /\ ~app.signingOut
    /\ SetApp([app EXCEPT !.signingOut = TRUE])

\* Variant: a failed sign-out clears the configuration and the report as well.
handleSignOut_ClearOnFailure ==
    /\ app.signingOut
    /\ \E ok \in BOOLEAN :
           LET a == [app EXCEPT !.signingOut = FALSE, !.embedConfig = NoConfig,
                                !.report = NoReport]
           IN  SetApp(Render(IF ok
                             THEN [a EXCEPT !.error = Null]
                             ELSE [a EXCEPT !.error = MsgSignOutFailed]))

handleSignOut ==
    /\ app.signingOut
    /\ \E ok \in BOOLEAN :
           LET a == [app EXCEPT !.signingOut = FALSE]
           IN  SetApp(Render(IF ok
                             THEN [a EXCEPT !.embedConfig = NoConfig,
                                            !.report = NoReport,
                                            !.error = Null]
                             ELSE [a EXCEPT !.error = MsgSignOutFailed]))

RetryClick ==
    /\ app.session # Null
    /\ ~app.loading
    /\ app.embedConfig = NoConfig
    /\ ~app.isLoadingEmbed
    /\ app.error = Null
    /\ CanInvoke(app)
    /\ SetApp(Render(fetchEmbedConfig(app)))

CloseError ==
    /\ app.error # Null
    /\ SetApp([app EXCEPT !.error = Null])

InitApp ==
    /\ env = FullEnv
    /\ msalCache = Undef
    /\ reqs = [r \in Slots |-> IdleReq]
    /\ app = AppInit
    /\ server = ServerInit

NextApp ==
    \/ GetSessionThen
    \/ AuthStateChange
    \/ BrokerAnswers
    \/ InvokeSettles
    \/ TokenExpired
    \/ ViewerError
    \/ SignOutClick
    \/ handleSignOut
    \/ RetryClick
    \/ CloseError

SpecApp == InitApp /\ [][NextApp]_vars

\* The broker answers every invocation and the event loop runs every
\* continuation.
SpecAppLive == SpecApp /\ WF_vars(BrokerAnswers) /\ WF_vars(InvokeSettles)

\* ---------------------------------------------------------------- claims

Req(r) == reqs[r]

Responded(q) == q.pc = "done"

NoUpstreamCall(q) == q.calls.azure = 0 /\ q.calls.report = 0 /\ q.calls.mint = 0

IsPrefix(s, t) == Len(s) <= Len(t) /\ s = SubSeq(t, 1, Len(s))

FixedOrder == <<"auth", "validate", "token", "assemble">>

ConsumedResponse(sub) == sub.st \in {"hdr_ok", "hdr_bad", "resolved"} \/ (sub.st = "rejected" /\ sub.err # MsgIdsRequired)

Started(q, sub) == q[sub].st # "idle"

\* C1: a request to the function-style broker of index.ts without an
\* Authorization header, or with one that does not start with 'Bearer ', is
\* answered 401 and triggers no downstream call.
C1_NoBearerIs401 ==
    \A r \in Reqs :
        LET q == Req(r)
        IN  (q.endpoint = "fn_jwt" /\ q.method # "OPTIONS" /\ q.auth.scheme # "Bearer" /\ q.pc # "idle")
            => /\ NoUpstreamCall(q) /\ q.calls.idp = 0
               /\ Responded(q) => q.resp.status = 401

\* C2 as stated: a function-style request whose bearer token does not verify
\* is answered 401 with exactly 'Invalid or expired token' and no Azure AD or
\* Power BI call, whatever the broker's configuration.
C2_BadTokenAlways401 ==
    \A r \in Reqs :
        LET q == Req(r)
        IN  (q.endpoint \in FnEndpoints /\ q.method # "OPTIONS" /\ q.auth.scheme = "Bearer"
             /\ q.auth.token.accepts = {} /\ Responded(q))
            => q.resp.status = 401 /\ q.resp.error = MsgInvalidToken /\ NoUpstreamCall(q)

\* C2 amended: a function-style request whose bearer token does not verify
\* (no key encoding accepts it, or the identity provider rejects it) is
\* answered 401 with exactly 'Invalid or expired token' and makes no Azure AD
\* or Power BI call, provided the session-verification secret is configured
\* where the broker verifies locally.
C2_BadTokenGeneric401 ==
    \A r \in Reqs :
        LET q == Req(r)
        IN  (q.endpoint \in FnEndpoints /\ q.method # "OPTIONS" /\ q.auth.scheme = "Bearer"
             /\ q.auth.token.accepts = {} /\ q.pc # "idle"
             /\ (q.endpoint = "fn_jwt" => Truthy(env.jwtSecret)))
            => /\ NoUpstreamCall(q)
               /\ ~q.authed
               /\ Responded(q) => /\ q.resp.status = 401
                                  /\ ~q.resp.success
                                  /\ q.resp.error = MsgInvalidToken

C2_Witness ==
    \E r \in Reqs :
        LET q == Req(r)
        IN  /\ q.endpoint = "fn_jwt" /\ q.auth.scheme = "Bearer" /\ q.auth.token.accepts = {}
            /\ q.tried = <<1, 2, 3>> /\ Responded(q) /\ q.resp.status = 401

\* C3: in every request trace the steps run in the order authenticate,
\* validate presence, acquire the service-principal token, assemble; a step
\* starts only after the earlier ones succeeded, and nothing follows an
\* authentication failure.
C3_StepsInFixedOrder ==
    \A r \in Reqs :
        LET q == Req(r)
        IN  /\ IsPrefix(q.steps, FixedOrder)
            /\ Len(q.steps) >= 2 => q.authed

\* C4: when the client-credentials grant fails the endpoint answers 401 or
\* 500 and neither the report fetch nor the embed-token mint is attempted.
C4_GrantFailure401Or500 ==
    \A r \in Reqs :
        LET q == Req(r)
        IN  q.grant = "failed"
            => /\ q.calls.report = 0 /\ q.calls.mint = 0
               /\ Responded(q) /\ q.resp.status \in {401, 500}

\* C5: function-style, authenticated request, POWERBI_WORKSPACE_ID or
\* POWERBI_REPORT_ID absent: the answer is 400 and no Azure AD or Power BI
\* call is made.
C5_MissingIds400 ==
    \A r \in Reqs :
        LET q == Req(r)
        IN  (q.endpoint \in FnEndpoints /\ q.authed /\ (~Truthy(env.ws) \/ ~Truthy(env.rep)))
            => /\ NoUpstreamCall(q)
               /\ Responded(q) /\ q.resp.status = 400 /\ ~q.resp.success

C5_Witness ==
    \E r \in Reqs :
        LET q == Req(r)
        IN  /\ q.endpoint = "fn_jwt" /\ q.authed /\ ~Truthy(env.rep)
            /\ Responded(q) /\ q.resp.status = 400 /\ q.resp.error = MsgPbiConfig

\* C6: route-style, workspace id or report id absent from the request and
\* from the configured defaults: the answer is 400, and the check precedes
\* the acquisition of the service-principal token and every Power BI call.
C6_RouteMissingIds400 ==
    \A r \in Reqs :
        LET q == Req(r)
        IN  (q.endpoint \notin FnEndpoints /\ q.pc # "idle"
             /\ (~Truthy(JsOr(q.qRep, env.rep)) \/ ~Truthy(JsOr(q.qWs, env.ws))))
            => /\ NoUpstreamCall(q) /\ q.azureToken = Undef
               /\ Responded(q) => q.resp.status = 400

\* C7: the report-metadata GET and the GenerateToken POST of one request are
\* started together: no response of either call is consumed while the other
\* call has not been started.
C7_IssuedConcurrently ==
    \A r \in Reqs :
        LET q == Req(r)
        IN  /\ ConsumedResponse(q.rep) => Started(q, "mint")
            /\ ConsumedResponse(q.mint) => Started(q, "rep")
            /\ q.calls.report > 0 => Started(q, "mint")

C7_Witness ==
    \E r \in Reqs :
        LET q == Req(r)
        IN  /\ q.rep.st = "inflight" /\ q.mint.st = "inflight"
            /\ q.calls.report = 1 /\ q.calls.mint = 1 /\ q.pc = "assembling"

\* C8: as soon as one of the two sub-calls has failed, the request has been
\* answered with the error of the sub-call that failed first, whatever the
\* state of the other one; a success response exists only when both
\* sub-calls succeeded.
C8_FirstFailurePropagates ==
    \A r \in Reqs :
        LET q == Req(r)
        IN  /\ q.firstFail # "none"
               => Responded(q) /\ ~q.resp.success /\ q.resp.error = q[q.firstFail].err
            /\ (q.resp.success /\ q.resp.body = "json")
               => q.rep.st = "resolved" /\ q.mint.st = "resolved"

C8_Witness ==
    \E r \in Reqs :
        LET q == Req(r)
        IN  /\ q.firstFail = "mint" /\ q.mint.err = MsgMintApi(PlainText)
            /\ q.rep.st = "inflight"
            /\ Responded(q) /\ q.resp.error = q.mint.err

ExpectedConfig(q) ==
    [ type |-> "report", id |-> q.repBody.id, embedUrl |-> q.repBody.embedUrl,
      accessToken |-> q.mintBody.token, tokenId |-> q.mintBody.tokenId,
      expiration |-> q.mintBody.expiration, settings |-> DefaultSettings ]

\* C9: the assembled configuration is exactly type 'report', the report's id
\* and embedUrl, the embed token's token, tokenId and expiration, and the
\* default settings; it is what a success response carries, except that
\* POST /config overlays the request's settings on the settings field.
C9_ConfigFromUpstream ==
    \A r \in Reqs :
        LET q == Req(r)
        IN  (q.resp.success /\ q.resp.body = "json")
            => /\ q.assembled = ExpectedConfig(q)
               /\ [q.resp.data EXCEPT !.settings = DefaultSettings] = ExpectedConfig(q)
               /\ ~q.hasSettings => q.resp.data = ExpectedConfig(q)

C9_Witness ==
    \E r \in Reqs :
        LET q == Req(r)
        IN  /\ q.resp.success /\ q.resp.body = "json"
            /\ q.resp.data.id = "r1" /\ q.resp.data.embedUrl = "https://x"
            /\ q.resp.data.accessToken = "t1" /\ q.resp.data.tokenId = "k1"
            /\ q.resp.data.expiration = "2099-01-01T00:00:00Z"
            /\ q.resp.data.settings = DefaultSettings

\* C10: every success response carries a non-empty accessToken, a tokenId
\* and an expiration, whatever 2xx body Power BI returned.
C10_SuccessIsComplete ==
    \A r \in Reqs :
        LET q == Req(r)
        IN  (q.resp.success /\ q.resp.body = "json")
            => /\ Truthy(q.resp.data.accessToken)
               /\ q.resp.data.tokenId # Undef
               /\ q.resp.data.expiration # Undef

\* C11: a 2xx GenerateToken body in which token, tokenId or expiration is
\* missing or not a string never fulfils the mint call, and no success
\* response carries a configuration built from such a body.
C11_MalformedMintRejected ==
    \A r \in Reqs :
        LET q == Req(r)
        IN  /\ q.mint.st = "resolved" => ShapeOk(q.mintBody)
            /\ (Responded(q) /\ q.resp.success /\ q.resp.body = "json")
               => /\ TypeOf(q.resp.data.accessToken) = "string"
                  /\ TypeOf(q.resp.data.tokenId) = "string"
                  /\ TypeOf(q.resp.data.expiration) = "string"

\* C12: every GenerateToken request has accessLevel 'View' and allowSaveAs
\* false; with a user id it carries exactly one identity {username: the user
\* id, roles: [], datasets: []}, and without one it has no identities field.
C12_MintRequestBody ==
    \A r \in Reqs :
        LET q == Req(r)
        IN  q.calls.mint > 0
            => /\ q.mintReq.accessLevel = "View"
               /\ q.mintReq.allowSaveAs = "false"
               /\ Truthy(q.userId)
                  => /\ q.mintReq.hasIdentities
                     /\ q.mintReq.identities
                          = << [username |-> q.userId, roles |-> <<>>, datasets |-> <<>>] >>
               /\ ~Truthy(q.userId)
                  => ~q.mintReq.hasIdentities /\ q.mintReq.identities = <<>>

C12_Witness ==
    \E r \in Reqs :
        LET q == Req(r)
        IN  /\ q.endpoint = "fn_jwt" /\ q.calls.mint = 1 /\ q.userId = "bob"
            /\ q.mintReq.hasIdentities /\ Len(q.mintReq.identities) = 1
            /\ q.mintReq.identities[1].username = "bob"

\* C13: every success response carrying an embed token was minted by a
\* GenerateToken request whose one identity names the user authenticated for
\* that request.
C13_MintedForRequestingUser ==
    \A r \in Reqs :
        LET q == Req(r)
        IN  (Responded(q) /\ q.resp.success /\ q.resp.body = "json")
            => /\ q.authed /\ Truthy(q.userId)
               /\ q.calls.mint = 1
               /\ q.mintReq.hasIdentities
               /\ Len(q.mintReq.identities) = 1
               /\ q.mintReq.identities[1].username = q.userId

\* C14: the status of a failure response follows the stage that failed: 401
\* when authentication failed, 400 when configuration is missing, and 500
\* when Azure AD or Power BI failed the request, whatever the upstream body
\* says.
C14_StatusByStage ==
    \A r \in Reqs :
        LET q == Req(r)
            upstreamFailed == \/ q.grant = "failed"
                              \/ q.firstFail # "none" /\ q[q.firstFail].err # MsgIdsRequired
            secretMissing == q.endpoint = "fn_jwt" /\ q.auth.scheme = "Bearer" /\ ~Truthy(env.jwtSecret)
        IN  (Responded(q) /\ ~q.resp.success)
            => /\ upstreamFailed => q.resp.status = 500
               /\ (q.endpoint \in FnEndpoints /\ ~q.authed /\ ~secretMissing) => q.resp.status = 401
               /\ (q.endpoint \in FnEndpoints /\ (secretMissing \/ (q.authed /\ q.calls.azure = 0)))
                  => q.resp.status = 400

\* C15: the client secret leaves the broker only in the body of the Azure AD
\* grant request; neither it nor the session signing key appears in any
\* response to the client or in any request to Power BI.
C15_SecretsStayWithVerifier ==
    \A r \in Reqs :
        LET q == Req(r)
            secrets == {env.clientSecret, env.jwtSecret} \ {Undef}
        IN  /\ \A i \in 1..Len(q.resp.error) : q.resp.error[i] \notin secrets
            /\ \A f \in {"id", "embedUrl", "accessToken", "tokenId", "expiration"} :
                  q.resp.data[f] \notin secrets
            /\ {q.repReq.ws, q.repReq.rep, q.repReq.bearer} \cap secrets = {}
            /\ {q.mintReq.ws, q.mintReq.rep, q.mintReq.bearer} \cap secrets = {}
            /\ \A i \in 1..Len(q.mintReq.identities) : q.mintReq.identities[i].username \notin secrets
            /\ {q.grantReq.client_id, q.grantReq.grant_type} \cap secrets = {}
            /\ q.grantReq.client_secret \in {Undef, env.clientSecret}
            /\ q.calls.azure > 0 => q.grantReq.client_secret = env.clientSecret

C15_Witness ==
    \E r \in Reqs :
        LET q == Req(r)
        IN  /\ q.endpoint = "fn_jwt" /\ q.grantReq.client_secret = "csecret"
            /\ q.grant = "failed" /\ Responded(q) /\ Len(q.resp.error) > 1
            /\ Truthy(env.jwtSecret)

C17_NothingRetained ==
    /\ (\A r \in Reqs : Req(r).pc = "idle") => msalCache = Undef
    /\ \A r \in Reqs :
          LET q == Req(r)
          IN  (Responded(q) /\ q.resp.success /\ q.resp.body = "json")
              => q.calls.azure = 1 /\ q.calls.report = 1 /\ q.calls.mint = 1

\* C17 amended: a handled request leaves behind no embed token, report
\* descriptor or user identity; the only state that survives it is the
\* access token the express broker's AuthService caches after a successful
\* grant, which the function-style brokers never write. Every success
\* response is built from the report fetch and the GenerateToken call issued
\* for that request, after a grant of its own or with the cached token.
C17_FreshMintEachTime ==
    [][ /\ (msalCache' # msalCache /\ Truthy(msalCache'))
           => \E r \in Reqs :
                 /\ reqs[r].endpoint \notin FnEndpoints /\ reqs[r].pc = "await_azure"
                 /\ reqs'[r].grant = "ok" /\ msalCache' = reqs'[r].azureToken
        /\ \A r \in Reqs :
              LET q == reqs'[r]
              IN  /\ q.pc = "idle" => q = IdleReq
                  /\ (Responded(q) /\ q.resp.success /\ q.resp.body = "json")
                     => /\ q.calls.report = 1 /\ q.rep.st = "resolved"
                        /\ q.calls.mint = 1 /\ q.mint.st = "resolved"
                        /\ q.resp.data.accessToken = q.mintBody.token
                        /\ q.resp.data.tokenId = q.mintBody.tokenId
                        /\ q.resp.data.expiration = q.mintBody.expiration
                        /\ q.resp.data.id = q.repBody.id
                        /\ q.endpoint \in FnEndpoints => q.calls.azure = 1 /\ q.grant = "ok"
                        /\ q.endpoint \notin FnEndpoints
                           => \/ q.calls.azure = 1 /\ q.grant = "ok"
                              \/ q.calls.azure = 0 /\ q.grant = "none" /\ q.azureToken \in AzureOkTokens
      ]_vars

C17_Witness ==
    \E r \in Reqs :
        LET q == Req(r)
        IN  /\ q.endpoint = "get_config" /\ Responded(q) /\ q.resp.success
            /\ q.calls.azure = 0 /\ q.calls.mint = 1 /\ q.calls.report = 1
            /\ q.resp.data.accessToken = "t1"

\* C18: within one request the Azure AD grant, the report GET and the
\* GenerateToken POST are each issued at most once, whether or not one fails.
C18_NoRetry ==
    \A r \in Reqs :
        LET q == Req(r)
        IN  q.calls.azure <= 1 /\ q.calls.report <= 1 /\ q.calls.mint <= 1

C18_Witness ==
    \E r \in Reqs :
        LET q == Req(r)
        IN  /\ Responded(q) /\ ~q.resp.success
            /\ q.rep.st = "rejected" /\ q.rep.err # NoMsg
            /\ q.calls.azure = 1 /\ q.calls.report = 1 /\ q.calls.mint = 1

C20_PreflightShortCircuit ==
    \A r \in Reqs :
        LET q == Req(r)
        IN  (q.endpoint \in FnEndpoints /\ q.method = "OPTIONS" /\ q.pc \notin {"idle", "received"})
            => /\ Responded(q) /\ q.sent = 1
               /\ q.resp.status \in 200..299 /\ q.resp.success
               /\ q.resp.body = "empty" /\ q.resp.keys = {}
               /\ CorsHeaders \subseteq q.resp.headers
               /\ NoUpstreamCall(q) /\ q.calls.idp = 0
               /\ ~q.authed /\ q.tried = <<>> /\ q.steps = <<>>

C20_Witness ==
    \E r \in Reqs :
        LET q == Req(r)
        IN  /\ q.endpoint = "fn_jwt" /\ q.method = "OPTIONS" /\ Responded(q)
            /\ q.auth.scheme = "Bearer" /\ q.auth.token.accepts = {}
            /\ q.resp.body = "empty"

\* C21: a request to one of the express routes without a valid bearer session
\* token is answered 401, acquires no service-principal token and causes no
\* Power BI call.
C21_RoutesRequireBearer ==
    \A r \in Reqs :
        LET q == Req(r)
        IN  (q.endpoint \in {"get_config", "post_config", "get_token"}
             /\ (q.auth.scheme # "Bearer" \/ q.auth.token.accepts = {})
             /\ q.pc \notin {"idle", "received"})
            => /\ NoUpstreamCall(q)
               /\ Truthy(q.azureToken) = FALSE
               /\ Responded(q) => q.resp.status = 401

\* C22: when the viewer raises tokenExpired while a session exists, the client
\* invokes the broker again with the current session's access token; and when
\* such an invocation is answered with success the returned token is set on the
\* running report object and the returned configuration is stored, the viewer
\* staying mounted as the same instance.
C22_RefreshOnTokenExpired ==
    [][ /\ (app'.expiredUpTo > app.expiredUpTo /\ app.session # Null)
           => \E c \in app'.calls :
                  /\ c.kind = "refresh"
                  /\ c.session = app.session
                  /\ c.answer = Pending
        /\ \A c \in app.calls :
               (/\ c \notin app'.calls
                /\ c.kind = "refresh"
                /\ c.answer.st = "ok"
                /\ app.viewer.mounted)
               => /\ app'.embedConfig.accessToken = c.answer.accessToken
                  /\ app'.viewer.mounted
                  /\ app'.viewer.inst = app.viewer.inst
                  /\ app'.viewer.token = c.answer.accessToken ]_vars

C22_Witness ==
    /\ app.viewer.mounted
    /\ app.expiredUpTo > 0
    /\ app.viewer.token > app.expiredUpTo
    /\ app.embedConfig.accessToken = app.viewer.token
    /\ app.minted = 2
    /\ app.calls = {}
    /\ app.error = Null

\* C23: the running report viewer never holds an embed token whose expiration
\* has passed.
C23_NeverPastExpiration ==
    app.viewer.mounted => app.viewer.token > app.expiredUpTo

\* C24: acquiring the service-principal token fails with the configuration
\* error, and sends nothing to the token endpoint, when clientId, clientSecret
\* or tenantId is absent; it fails with the upstream authentication error when
\* the token endpoint answers non-success; otherwise the access token of the
\* response is what the Power BI calls are made with.
C24_ServicePrincipalGrant ==
    \A r \in Reqs :
        LET q == Req(r)
        IN  /\ (q.endpoint \notin FnEndpoints /\ q.pc # "idle") => ~ConfigMissing(env)
            /\ (Includes(q.steps, "token") /\ ConfigMissing(env))
               => /\ Responded(q)
                  /\ q.resp.error = MsgAzureConfig
                  /\ q.grant = "none"
                  /\ q.grantReq = NoGrantReq
                  /\ NoUpstreamCall(q)
            /\ q.grant = "failed"
               => /\ Responded(q)
                  /\ ~q.resp.success
                  /\ \E text \in AzureErrorTexts \cup {MsgNoAccessToken} :
                         q.resp.error = IF q.endpoint \in FnEndpoints
                                        THEN MsgAzureGrant(text)
                                        ELSE MsgAuthFailed(text)
                  /\ q.calls.report = 0 /\ q.calls.mint = 0
            /\ q.grant = "ok"
               => /\ q.azureToken \in AzureOkTokens
                  /\ q.grantReq = GrantRequest(env)
                  /\ q.calls.report > 0 => q.repReq.bearer = q.azureToken
                  /\ q.calls.mint > 0 => q.mintReq.bearer = q.azureToken

C24_Witness ==
    \E r \in Reqs :
        /\ ~Truthy(env.tenantId)
        /\ Includes(Req(r).steps, "token")
        /\ Responded(Req(r))
        /\ Req(r).resp.error = MsgAzureConfig
        /\ Req(r).calls.azure = 0

\* C25: every brokering request that was received is eventually answered,
\* whether or not the grant and the Power BI calls return.
C25_EveryRequestAnswered ==
    \A r \in Reqs : (reqs[r].pc = "received") ~> (reqs[r].pc = "done")

\* C26: the health report states 'ready' or 'misconfigured' for authentication
\* by the three Azure credentials and for power-bi by the workspace id and the
\* API URL, is sent with 200 exactly when both are ready and with 503
\* otherwise, and never contains the client secret.
C26_HealthReport ==
    LET h == server.health
        credsSet == \A v \in {env.clientId, env.clientSecret, env.tenantId} :
                        v \notin {Undef, "", " "}
        powerbiSet == env.ws \notin {Undef, ""} /\ IsUrl(env.apiUrl)
        bodyStrings == {h.status, h.environment, h.authentication, h.powerbi}
                       \cup {h.errors[i] : i \in 1..Len(h.errors)}
                       \cup {h.warnings[i] : i \in 1..Len(h.warnings)}
    IN  h # NoHealth
        => /\ h.authentication = (IF credsSet THEN "ready" ELSE "misconfigured")
           /\ h.powerbi = (IF powerbiSet THEN "ready" ELSE "misconfigured")
           /\ h.statusCode = (IF h.authentication = "ready" /\ h.powerbi = "ready"
                              THEN 200 ELSE 503)
           /\ env.clientSecret \notin bodyStrings

C26_Witness ==
    /\ server.health.statusCode = 503
    /\ server.health.authentication = "misconfigured"
    /\ server.health.powerbi = "ready"
    /\ env.clientSecret = " "

\* C27: a GET /api/embed/token request whose grant and GenerateToken call did
\* not fail is answered 200 with success, after exactly one GenerateToken call
\* and without any call to the report-metadata endpoint.
C27_TokenOnly ==
    \A r \in Reqs :
        LET q == Req(r)
        IN  (/\ q.endpoint = "get_token"
             /\ q.parses
             /\ Responded(q)
             /\ q.grant # "failed"
             /\ q.mint.st # "rejected")
            => /\ q.resp.status = 200
               /\ q.resp.success
               /\ q.calls.mint = 1
               /\ q.calls.report = 0

\* C28: whenever the session becomes non-null while no embed configuration is
\* held, the client invokes the broker with that session's access token; every
\* invocation it starts carries the access token of the session then held,
\* never none; and, the broker answering, a load in flight leads to an embed
\* configuration being stored or the error state being set.
C28_LoadsOnceAuthenticated ==
    /\ [][ /\ (app.session = Null /\ app'.session # Null /\ app.embedConfig = NoConfig)
              => \E c \in app'.calls :
                     /\ c.kind = "fetch"
                     /\ c.session = app'.session
                     /\ c.answer = Pending
           /\ \A c \in app'.calls \ app.calls :
                  c.answer = Pending => (c.session # Null /\ c.session = app'.session)
         ]_vars
    /\ (\E c \in app.calls : c.kind = "fetch")
           ~> (app.embedConfig # NoConfig \/ app.error # Null)

C28_Witness ==
    /\ app.session # Null
    /\ app.embedConfig.session = app.session
    /\ app.viewer.mounted
    /\ app.minted = 1
    /\ app.expiredUpTo = 0
    /\ app.calls = {}

\* C29: with a bearer token and a signing secret at hand, local verification
\* attempts the key encodings in the order string secret, decoded bytes,
\* imported key, each only after the earlier ones failed; it succeeds with the
\* payload of the first encoding that verifies, and fails, with the generic
\* message, only after all three were attempted and failed.
C29_ThreeEncodingsInOrder ==
    \A r \in Reqs :
        LET q == Req(r)
            acc == q.auth.token.accepts
        IN  (/\ q.endpoint = "fn_jwt"
             /\ q.method # "OPTIONS"
             /\ q.auth.scheme = "Bearer"
             /\ Truthy(env.jwtSecret)
             /\ q.pc \notin {"idle", "received"})
            => /\ IsPrefix(q.tried, <<1, 2, 3>>)
               /\ \A i \in 1..(Len(q.tried) - 1) : q.tried[i] \notin acc
               /\ q.authed => /\ q.tried # <<>>
                              /\ q.tried[Len(q.tried)] \in acc
                              /\ q.userId = q.auth.token.sub
               /\ ~q.authed => /\ q.tried = <<1, 2, 3>>
                               /\ acc \cap {1, 2, 3} = {}
                               /\ q.resp.error = MsgInvalidToken

\* C30: the embed configuration the client holds was fetched with the access
\* token of the session the client currently has; none obtained for an earlier
\* session stays stored or displayed.
C30_ConfigOfCurrentSession ==
    /\ app.embedConfig # NoConfig => app.embedConfig.session = app.session
    /\ app.viewer.mounted => app.embedConfig.session = app.session

\* C31: when the broker call of a token refresh completes, either the viewer
\* holds the newly returned access token or the error state is the
\* refresh-failure message.
C31_RefreshNeverSilent ==
    [][ \A c \in app.calls :
            (/\ c \notin app'.calls
             /\ c.kind = "refresh"
             /\ c.answer # Pending)
            => \/ /\ c.answer.st = "ok"
                  /\ app'.viewer.mounted
                  /\ app'.viewer.token = c.answer.accessToken
               \/ app'.error = MsgRefreshFailed ]_vars

\* C32: isLoadingEmbed is true exactly while some fetchEmbedConfig call is in
\* flight.
C32_LoadingWhileFetching ==
    app.isLoadingEmbed <=> (\E c \in app.calls : c.kind = "fetch")

\* C33: when handleSignOut completes it has either cleared the embed
\* configuration, the report reference and the error state (sign-out
\* succeeded), or set the error state to the provider's message and left the
\* embed configuration and the report reference as they were (sign-out failed).
C33_SignOutFrame ==
    [][ (app.signingOut /\ ~app'.signingOut)
        => \/ /\ app'.embedConfig = NoConfig
              /\ app'.report = NoReport
              /\ app'.error = Null
           \/ /\ app'.error = MsgSignOutFailed
              /\ app'.embedConfig = app.embedConfig
              /\ app'.report = app.report ]_vars

C33_Witness ==
    /\ ~app.signingOut
    /\ app.error = MsgSignOutFailed
    /\ app.embedConfig # NoConfig
    /\ app.report # NoReport
    /\ app.viewer.mounted

\* C34: within one getEmbedConfig call of the express broker the
\* report-metadata GET and the GenerateToken POST go to the same workspace and
\* report with the same service-principal token, and each id is the one the
\* request supplied, or the configured default where it supplied none.
C34_SameTargetBothCalls ==
    \A r \in Reqs :
        LET q == Req(r)
            wantRep == IF q.qRep \notin {Undef, ""} THEN q.qRep ELSE env.rep
            wantWs == IF q.qWs \notin {Undef, ""} THEN q.qWs ELSE env.ws
        IN  q.endpoint \notin FnEndpoints
            => /\ q.calls.report > 0
                  => q.repReq.rep = wantRep /\ q.repReq.ws = wantWs
               /\ q.calls.mint > 0
                  => q.mintReq.rep = wantRep /\ q.mintReq.ws = wantWs
               /\ (q.calls.report > 0 /\ q.calls.mint > 0)
                  => /\ q.repReq.rep = q.mintReq.rep
                     /\ q.repReq.ws = q.mintReq.ws
                     /\ q.repReq.bearer = q.mintReq.bearer
                     /\ Truthy(q.repReq.bearer)

C34_Witness ==
    \E r \in Reqs :
        /\ Req(r).endpoint = "get_config"
        /\ Req(r).qRep = "repReq"
        /\ Req(r).qWs = Undef
        /\ Req(r).calls.report = 1
        /\ Req(r).calls.mint = 1
        /\ Req(r).mintReq.rep = "repReq"
        /\ Req(r).mintReq.ws = env.ws

\* C35: the configuration returned by POST /api/embed/config carries the
\* default settings with each top-level key of the request's settings object
\* put in place of the default's and every other key left at its default; with
\* no settings object the defaults are returned; the other fields are those
\* built from the Power BI answers whatever the settings.
C35_SettingsOverlay ==
    \A r \in Reqs :
        LET q == Req(r)
            d == q.resp.data
        IN  (q.endpoint = "post_config" /\ Responded(q) /\ q.resp.success)
            => /\ q.hasSettings
                  => /\ DOMAIN d.settings = DOMAIN DefaultSettings \cup DOMAIN q.settings
                     /\ \A k \in DOMAIN q.settings : d.settings[k] = q.settings[k]
                     /\ \A k \in DOMAIN DefaultSettings \ DOMAIN q.settings :
                            d.settings[k] = DefaultSettings[k]
               /\ ~q.hasSettings => d.settings = DefaultSettings
               /\ \A f \in {"type", "id", "embedUrl", "accessToken", "tokenId", "expiration"} :
                      d[f] = ExpectedConfig(q)[f]

C35_Witness ==
    \E r \in Reqs :
        /\ Req(r).endpoint = "post_config"
        /\ Responded(Req(r))
        /\ Req(r).resp.success
        /\ Req(r).hasSettings
        /\ "localeSettings" \in DOMAIN Req(r).resp.data.settings
        /\ Req(r).resp.data.settings.panes = CustomPanes
        /\ Req(r).resp.data.settings.bars = DefaultSettings.bars

\* C36: once startServer has run, the express server listens exactly when the
\* three Azure credentials and the workspace id are set and the authority and
\* API URLs are valid, and has exited otherwise; a missing report id does not
\* keep it from listening.
C36_ListensOnlyWhenValid ==
    LET required == /\ \A v \in {env.clientId, env.clientSecret, env.tenantId, env.ws} :
                          v \notin {Undef, ""}
                    /\ IsUrl(env.authority)
                    /\ IsUrl(env.apiUrl)
    IN  /\ server.state = "listening" => required
        /\ server.state = "exited" => ~required
        /\ server.health # NoHealth => server.state = "listening"

C36_Witness ==
    /\ server.state = "listening"
    /\ env.rep = Undef

====
